---- MODULE Spec2Model ----
\* Client-side session and resource-workflow core of Hackathon-Vibecoding:
\* the credential store and request gateway of the api module, and the
\* Login, Signup, Assess and Dashboard workflow controllers built on it.
EXTENDS Integers, Sequences, FiniteSets, TLC

\* ---------------------------------------------------------------- bounds

\* Largest number of asynchronous handler invocations (each awaiting one
\* network request) that are suspended at the same time.
MaxPending == 2

\* ------------------------------------------------------------- JS values

JNull == [type |-> "null"]
JUndefined == [type |-> "undefined"]
JStr(s) == [type |-> "string", v |-> s]
JNum(n) == [type |-> "number", n |-> n]
\* The number n + hundredths / 100.
JFraction(n, hundredths) ==
  [type |-> "number", n |-> n, hundredths |-> hundredths]
Hundredths(j) == IF "hundredths" \in DOMAIN j THEN j.hundredths ELSE 0
JObj(f) == [type |-> "object", fields |-> f]
EmptyObject == JObj(<<>>)

\* JavaScript truthiness, as used by `if (token)`, `if (email)`,
\* `if (data?.access_token)` and `text ? ... : ...`.
Truthy(j) ==
  CASE j.type = "null" -> FALSE
    [] j.type = "undefined" -> FALSE
    [] j.type = "string" -> j.v # ""
    [] j.type = "number" -> j.n # 0 \/ Hundredths(j) # 0
    [] OTHER -> TRUE

\* data?.key : undefined when data is null/undefined or has no such field.
OptionalGet(data, key) ==
  IF data.type = "object" /\ key \in DOMAIN data.fields
    THEN data.fields[key]
    ELSE JUndefined

\* Object spread { ...a, ...b }: the keys of b win.
Spread(a, b) ==
  [k \in DOMAIN a \cup DOMAIN b |-> IF k \in DOMAIN b THEN b[k] ELSE a[k]]

\* ------------------------------------------------------ credential store

TOKEN_KEY == "auth_token"
EMAIL_KEY == "auth_email"

\* A storage value st = [items, log]: items maps the keys that are present
\* to their string values; log is the sequence of localStorage calls made.
setItem(st, key, value) ==
  [items |-> [k \in DOMAIN st.items \cup {key} |->
                IF k = key THEN value ELSE st.items[k]],
   log |-> Append(st.log, <<"setItem", key, value>>)]

removeItem(st, key) ==
  [items |-> [k \in DOMAIN st.items \ {key} |-> st.items[k]],
   log |-> Append(st.log, <<"removeItem", key>>)]

getItem(st, key) ==
  IF key \in DOMAIN st.items THEN JStr(st.items[key]) ELSE JNull

\* setToken() as it would be if a falsy argument left the entry alone.
setTokenIgnoresEmpty(st, token) ==
  IF Truthy(token) THEN setItem(st, TOKEN_KEY, token.v) ELSE st

setToken(st, token) ==
  IF Truthy(token) THEN setItem(st, TOKEN_KEY, token.v)
                   ELSE removeItem(st, TOKEN_KEY)

getToken(st) == getItem(st, TOKEN_KEY)

setEmail(st, email) ==
  IF Truthy(email) THEN setItem(st, EMAIL_KEY, email.v)
                   ELSE removeItem(st, EMAIL_KEY)

getEmail(st) == getItem(st, EMAIL_KEY)

\* logout() as it would be if it cleared one of the two entries only.
logoutOnlyToken(st) == setToken(st, JNull)

logoutOnlyEmail(st) == setEmail(st, JNull)

logout(st) == setEmail(setToken(st, JNull), JNull)

\* ------------------------------------------------------- request gateway

\* Response and request texts are strings; JSON.parse is given on the texts
\* the model uses, and throws a SyntaxError on the others.
TokenT1Text == "{\"access_token\":\"T1\",\"user\":{\"id\":1}}"
TokenT2Text == "{\"access_token\":\"T2\"}"
NoTokenText == "{\"message\":\"Login successful\"}"
NullTokenText == "{\"access_token\":null,\"message\":\"Partial login\"}"
EmptyTokenText == "{\"access_token\":\"\"}"
JsonNullText == "null"
PlainText == "Invalid credentials"

FilesText == "[{\"id\":1,\"filename\":\"a.pdf\",\"created_at\":\"2024-01-01\"}]"
NoFilesText == "[]"
BuiltText == "{\"files_indexed\":2}"
NoneBuiltText == "{\"files_indexed\":0}"
NullBuiltText == "{\"files_indexed\":null}"
GradeText == "{\"grade\":7,\"explanation\":\"ok\"}"
FineGradeText == "{\"grade\":7.25,\"explanation\":\"fair\"}"

JArr(items) == [type |-> "array", items |-> items]

JsonTexts ==
  {TokenT1Text, TokenT2Text, NoTokenText, NullTokenText, EmptyTokenText,
   JsonNullText, FilesText, NoFilesText, BuiltText, NoneBuiltText,
   NullBuiltText, GradeText, FineGradeText}

JSONvalue(text) ==
  CASE text = TokenT1Text ->
         JObj([access_token |-> JStr("T1"), user |-> JObj([id |-> JNum(1)])])
    [] text = TokenT2Text -> JObj([access_token |-> JStr("T2")])
    [] text = NoTokenText -> JObj([message |-> JStr("Login successful")])
    [] text = NullTokenText ->
         JObj([access_token |-> JNull, message |-> JStr("Partial login")])
    [] text = EmptyTokenText -> JObj([access_token |-> JStr("")])
    [] text = JsonNullText -> JNull
    [] text = FilesText ->
         JArr(<<JObj([id |-> JNum(1), filename |-> JStr("a.pdf"),
                      created_at |-> JStr("2024-01-01")])>>)
    [] text = NoFilesText -> JArr(<<>>)
    [] text = BuiltText -> JObj([files_indexed |-> JNum(2)])
    [] text = NoneBuiltText -> JObj([files_indexed |-> JNum(0)])
    [] text = NullBuiltText -> JObj([files_indexed |-> JNull])
    [] text = GradeText ->
         JObj([grade |-> JNum(7), explanation |-> JStr("ok")])
    [] text = FineGradeText ->
         JObj([grade |-> JFraction(7, 25), explanation |-> JStr("fair")])

\* The completion of an async function or of a call that may throw: a
\* returned value or a thrown one.
Return(v) == [kind |-> "return", value |-> v]
Throw(e) == [kind |-> "throw", error |-> e]

SyntaxError == [name |-> "SyntaxError", message |-> "Unexpected token"]

JSONparse(text) ==
  IF text \in JsonTexts THEN Return(JSONvalue(text)) ELSE Throw(SyntaxError)

JSONstringifyCredentials(email, password) ==
  "{\"email\":\"" \o email \o "\",\"password\":\"" \o password \o "\"}"

ApiError(message, status, url, body) ==
  [name |-> "ApiError", message |-> message, status |-> status,
   url |-> url, body |-> body]

\* What the network does with a request: a response, or a rejected fetch.
TransportFailure == [transport |-> "failed"]
Response(ok, status, text) ==
  [transport |-> "response", ok |-> ok, status |-> status, text |-> text]
FetchRejection == [name |-> "TypeError", message |-> "Failed to fetch"]

\* api()'s headers as they would be if the token were never attached.
ApiHeadersNoAuth(st, options) ==
  Spread([ct \in {"Content-Type"} |-> "application/json"],
         IF "headers" \in DOMAIN options THEN options["headers"] ELSE <<>>)

\* api()'s headers as they would be if the caller's headers were laid over
\* the token's instead of under it.
ApiHeadersCallerWins(st, options) ==
  LET token == getToken(st)
      own == IF Truthy(token)
               THEN ("Content-Type" :> "application/json"
                     @@ "Authorization" :> "Bearer " \o token.v)
               ELSE ("Content-Type" :> "application/json")
  IN Spread(own, IF "headers" \in DOMAIN options
                   THEN options["headers"] ELSE <<>>)

\* api()'s headers as they would be if the default Content-Type were laid
\* over the caller's headers.
ApiHeadersDefaultWins(st, options) ==
  LET token == getToken(st)
      headers == Spread(IF "headers" \in DOMAIN options
                          THEN options["headers"] ELSE <<>>,
                        [ct \in {"Content-Type"} |-> "application/json"])
  IN IF Truthy(token)
       THEN Spread(headers,
                   [a \in {"Authorization"} |-> "Bearer " \o token.v])
       ELSE headers

\* api(), up to the await of fetch: the arguments handed to fetch.
ApiHeaders(st, options) ==
  LET token == getToken(st)
      headers == Spread([ct \in {"Content-Type"} |-> "application/json"],
                        IF "headers" \in DOMAIN options
                          THEN options["headers"] ELSE <<>>)
  IN IF Truthy(token)
       THEN Spread(headers,
                   [a \in {"Authorization"} |-> "Bearer " \o token.v])
       ELSE headers

ApiFetch(st, path, options) ==
  [path |-> path,
   init |-> Spread(options, [h \in {"headers"} |-> ApiHeaders(st, options)])]

\* api() as it would be if it returned the text of a body it cannot parse.
ApiSettleReturnsText(path, res) ==
  IF res.transport = "failed" THEN Throw(FetchRejection)
  ELSE IF ~res.ok
    THEN Throw(ApiError("Request failed (" \o ToString(res.status) \o ")",
                        res.status, path, res.text))
  ELSE IF res.text = "" THEN Return(EmptyObject)
  ELSE IF JSONparse(res.text).kind = "throw" THEN Return(JStr(res.text))
  ELSE JSONparse(res.text)

\* api() as it would be if a successful response with a body it cannot
\* parse were an error too.
ApiSettleThrowsOnBadBody(path, res) ==
  IF res.transport = "failed" THEN Throw(FetchRejection)
  ELSE IF ~res.ok \/ (res.text # "" /\ JSONparse(res.text).kind = "throw")
    THEN Throw(ApiError("Request failed (" \o ToString(res.status) \o ")",
                        res.status, path, res.text))
  ELSE IF res.text = "" THEN Return(EmptyObject)
  ELSE JSONparse(res.text)

\* api(), from the settled fetch on.
ApiSettle(path, res) ==
  IF res.transport = "failed" THEN Throw(FetchRejection)
  ELSE IF ~res.ok
    THEN Throw(ApiError("Request failed (" \o ToString(res.status) \o ")",
                        res.status, path, res.text))
  ELSE IF res.text = "" THEN Return(EmptyObject)
  ELSE IF JSONparse(res.text).kind = "throw" THEN Return(EmptyObject)
  ELSE JSONparse(res.text)

\* --------------------------------------------------- resource operations

REGISTER_PATH == "/api/auth/register"
LOGIN_PATH == "/api/auth/login"
FILES_PATH == "/api/files"
UPLOAD_PATH == "/api/files/upload"
BUILD_PATH == "/api/rag/build"
ASSESS_PATH == "/api/rag/assess"
PUBLIC_PATH == "/api/public"

RegisterFetch(st, email, password) ==
  ApiFetch(st, REGISTER_PATH,
           [method |-> "POST",
            body |-> JSONstringifyCredentials(email.v, password)])

LoginFetch(st, email, password) ==
  ApiFetch(st, LOGIN_PATH,
           [method |-> "POST",
            body |-> JSONstringifyCredentials(email.v, password)])

\* login(), after the awaited api() has completed with c: the storage it
\* leaves and its own completion.
\* login() as it would be if it never stored the token.
LoginSettleIgnoresToken(st, email, c) ==
  IF c.kind = "throw" THEN [st |-> st, completion |-> c]
  ELSE [st |-> IF Truthy(email) THEN setEmail(st, email) ELSE st,
        completion |-> Return(c.value)]

\* login() as it would be if it stored the email before the response is
\* known to be a success.
LoginSettleWritesOnFailure(st, email, c) ==
  [st |-> IF Truthy(email) THEN setEmail(st, email) ELSE st,
   completion |-> c]

\* login() as it would be if a failed request ended the session.
LoginSettleLogsOutOnFailure(st, email, c) ==
  IF c.kind = "throw" THEN [st |-> logout(st), completion |-> c]
  ELSE LET token == OptionalGet(c.value, "access_token")
           st1 == IF Truthy(token) THEN setToken(st, token) ELSE st
           st2 == IF Truthy(email) THEN setEmail(st1, email) ELSE st1
       IN [st |-> st2, completion |-> Return(c.value)]

LoginSettle(st, email, c) ==
  IF c.kind = "throw" THEN [st |-> st, completion |-> c]
  ELSE LET token == OptionalGet(c.value, "access_token")
           st1 == IF Truthy(token) THEN setToken(st, token) ELSE st
           st2 == IF Truthy(email) THEN setEmail(st1, email) ELSE st1
       IN [st |-> st2, completion |-> Return(c.value)]

ListFilesFetch(st) == ApiFetch(st, FILES_PATH, <<>>)

BuildRagFetch(st) == ApiFetch(st, BUILD_PATH, [method |-> "POST"])

AssessFetch(st, text) ==
  ApiFetch(st, ASSESS_PATH,
           [method |-> "POST", body |-> "{\"text\":\"" \o text \o "\"}"])

\* uploadFiles() as it would be if it went through the gateway's headers.
UploadFetchThroughGateway(st, files) ==
  [path |-> UPLOAD_PATH,
   init |-> [method |-> "POST",
             headers |-> ApiHeaders(st, <<>>),
             body |-> [i \in 1..Len(files) |->
                         <<"files", files[i], files[i]>>]]]

\* uploadFiles(), up to the await of fetch. files is a sequence of file
\* names; the form carries one part per file under the field "files".
UploadFetch(st, files) ==
  LET token == getToken(st)
  IN [path |-> UPLOAD_PATH,
      init |-> [method |-> "POST",
                headers |-> IF Truthy(token)
                              THEN [Authorization |-> "Bearer " \o token.v]
                              ELSE JUndefined,
                body |-> [i \in 1..Len(files) |->
                            <<"files", files[i], files[i]>>]]]

\* uploadFiles(), from the settled fetch on.
UploadSettle(res) ==
  IF res.transport = "failed" THEN Throw(FetchRejection)
  ELSE IF ~res.ok
    THEN Throw(ApiError("Request failed (" \o ToString(res.status) \o ")",
                        res.status, UPLOAD_PATH, res.text))
  ELSE JSONparse(res.text)

\* The Authorization header of the arguments handed to fetch, or "" when
\* the request carries none.
Authorization(fetch) ==
  IF "headers" \in DOMAIN fetch.init
     /\ "Authorization" \in DOMAIN fetch.init["headers"]
    THEN fetch.init["headers"]["Authorization"]
    ELSE ""

\* ------------------------------------------------------------------ state

VARIABLES
  localStorage,  \* the persisted key/value entries: present key -> string
  storageLog,    \* the localStorage calls made by the latest step
  pending,       \* the suspended async invocations, each awaiting a fetch
  lastEvent,     \* history: the latest step taken
  session,       \* history: the latest store-changing event since start
  route,         \* the location the router shows (its pathname)
  locationState, \* the state that location carries (null when none)
  navbar,        \* the token the Navbar read when it last rendered
  login,         \* Login controller: [loading, error]
  signup,        \* Signup controller: [loading, error]
  assessPage,    \* Assess controller: [loading, error, result]
  dashboard,     \* Dashboard: [files, uploading, building, message]
  fileInput,     \* value of the Dashboard's file input ("" when empty)
  submits,       \* history: per trigger, handler runs of the Busy period
  build          \* what is built: which definition of Login and of Signup,
                 \* and whether api and navigate are the test suites' stubs

vars ==
  <<localStorage, storageLog, pending, lastEvent, session, route,
    locationState, navbar, login, signup, assessPage, dashboard, fileInput,
    submits, build>>

uiVars ==
  <<route, locationState, navbar, login, signup, assessPage, dashboard,
    fileInput, submits, build>>

location == <<route, locationState>>

\* ----------------------------------------------------------------- inputs

Emails == {"", "a@b.com"}
Passwords == {"pw"}
Texts == {"", "essay"}
FileSelections == {<<>>, <<"a.pdf">>, <<"b.pdf">>}

\* Options a caller of api() passes: none, its own Authorization header
\* (also under a lower-case key, which is another key of the mapping), a
\* Content-Type of its own with a method and a body.
ApiOptions ==
  {<<>>,
   [headers |-> [Authorization |-> "Basic x"]],
   [headers |-> [authorization |-> "Basic y"]],
   [method |-> "PUT", body |-> "{\"data\":\"test\"}",
    headers |-> ("Content-Type" :> "text/plain")]}

\* What may be persisted from an earlier page load.
PersistedStores ==
  {<<>>,
   [auth_token |-> "T0", auth_email |-> "old@x.io"]}

LoginResponses ==
  {TransportFailure, Response(FALSE, 401, PlainText),
   Response(FALSE, 500, "")}
  \cup {Response(TRUE, 200, t) :
          t \in {TokenT1Text, TokenT2Text, NoTokenText, NullTokenText,
                 EmptyTokenText, JsonNullText, "", PlainText}}

OtherResponses ==
  {TransportFailure, Response(FALSE, 404, "Not found"),
   Response(TRUE, 200, ""), Response(TRUE, 200, PlainText)}

ResponsesTo(fn) ==
  CASE fn = "login" -> LoginResponses
    [] fn = "listFiles" ->
         OtherResponses \cup {Response(TRUE, 200, FilesText),
                              Response(TRUE, 200, NoFilesText)}
    [] fn = "buildRag" -> OtherResponses \cup {Response(TRUE, 200, BuiltText)}
    [] fn = "assess" -> OtherResponses \cup {Response(TRUE, 200, GradeText)}
    [] fn = "uploadFiles" ->
         OtherResponses \cup {Response(TRUE, 200, NoTokenText),
                              Response(FALSE, 500, "")}
    [] OTHER -> OtherResponses \cup {Response(TRUE, 200, NoTokenText)}

\* The answers drawn for the requests of the mounted application.
UiResponsesTo(fn) ==
  CASE fn = "login" ->
         {TransportFailure, Response(FALSE, 401, PlainText),
          Response(TRUE, 200, TokenT1Text), Response(TRUE, 200, NoTokenText)}
    [] fn = "listFiles" ->
         {Response(FALSE, 404, "Not found"), Response(TRUE, 200, FilesText),
          Response(TRUE, 200, NoFilesText)}
    [] fn = "buildRag" ->
         {Response(FALSE, 404, "Not found"), Response(TRUE, 200, BuiltText),
          Response(TRUE, 200, NoneBuiltText),
          Response(TRUE, 200, NullBuiltText), Response(TRUE, 200, "")}
    [] fn = "assess" ->
         {Response(FALSE, 404, "Not found"), Response(TRUE, 200, GradeText),
          Response(TRUE, 200, FineGradeText)}
    [] fn = "uploadFiles" ->
         {Response(FALSE, 404, "Not found"), Response(TRUE, 200, ""),
          Response(TRUE, 200, NoTokenText)}
    [] OTHER ->
         {Response(FALSE, 404, "Not found"), Response(TRUE, 200, NoTokenText)}

PathOf(fn) ==
  CASE fn = "register" -> REGISTER_PATH
    [] fn = "login" -> LOGIN_PATH
    [] fn = "listFiles" -> FILES_PATH
    [] fn = "uploadFiles" -> UPLOAD_PATH
    [] fn = "buildRag" -> BUILD_PATH
    [] fn = "assess" -> ASSESS_PATH
    [] fn = "api" -> PUBLIC_PATH

Storage == [items |-> localStorage, log |-> <<>>]

\* A suspended invocation: the handler that runs it, whether the component
\* that started it is still mounted, the api function it awaits, the email
\* and password of its closure, and the steps it has taken so far.
Task(handler, fn, email, password, hist) ==
  [handler |-> handler, alive |-> TRUE, fn |-> fn, email |-> email,
   password |-> password, hist |-> hist]

RemoveAt(seq, i) == SubSeq(seq, 1, i - 1) \o SubSeq(seq, i + 1, Len(seq))

\* The completion of the api function task t awaits, and the storage it
\* leaves, when the network answers res.
SettleCall(st, t, res) ==
  CASE t.fn = "login" -> LoginSettle(st, t.email, ApiSettle(LOGIN_PATH, res))
    [] t.fn = "uploadFiles" -> [st |-> st, completion |-> UploadSettle(res)]
    [] OTHER -> [st |-> st, completion |-> ApiSettle(PathOf(t.fn), res)]

\* The history of store-changing events: a login that returned with a
\* token, or a logout.
SessionAfterSettle(t, completion) ==
  IF t.fn = "login" /\ completion.kind = "return"
     /\ Truthy(OptionalGet(completion.value, "access_token"))
    THEN [is |-> "token",
          token |-> OptionalGet(completion.value, "access_token").v]
    ELSE session

\* The state of a freshly mounted controller (the useState initial values).
InitialLogin == [loading |-> FALSE, error |-> JNull]
InitialSignup == [loading |-> FALSE, error |-> JNull]
InitialAssess == [loading |-> FALSE, error |-> JNull, result |-> JNull]
InitialDashboard ==
  [files |-> JArr(<<>>), uploading |-> FALSE, building |-> FALSE,
   message |-> JNull]
InitialSubmits ==
  [c \in {"login", "signup", "assess", "build", "upload"} |-> 0]

InitUi ==
  /\ route = "/"
  /\ locationState = JNull
  /\ navbar = getToken(Storage)
  /\ login = InitialLogin
  /\ signup = InitialSignup
  /\ assessPage = InitialAssess
  /\ dashboard = InitialDashboard
  /\ fileInput = ""
  /\ submits = InitialSubmits

InitStore ==
  /\ localStorage \in PersistedStores
  /\ storageLog = <<>>
  /\ pending = <<>>
  /\ lastEvent = [kind |-> "start"]
  /\ session = [is |-> "unknown"]

\* ---------------------------------------------- the api module, called directly

\* A call that reaches its await of fetch; options is what the caller of
\* api() passed (nothing for the functions that take no options).
CallWith(fn, options, fetch, email, password) ==
  /\ Len(pending) < MaxPending
  /\ pending' = Append(pending, Task("caller", fn, email, password, <<>>))
  /\ lastEvent' = [kind |-> "call", fn |-> fn, fetch |-> fetch,
                   options |-> options]
  /\ storageLog' = <<>>
  /\ UNCHANGED <<localStorage, session>>

CallFetch(fn, fetch, email, password) ==
  CallWith(fn, <<>>, fetch, email, password)

CallRegister ==
  \E e \in Emails, p \in Passwords :
    CallFetch("register", RegisterFetch(Storage, JStr(e), p), JStr(e), p)

CallLogin ==
  \E e \in Emails, p \in Passwords :
    CallFetch("login", LoginFetch(Storage, JStr(e), p), JStr(e), p)

CallListFiles == CallFetch("listFiles", ListFilesFetch(Storage), JNull, "")

CallBuildRag == CallFetch("buildRag", BuildRagFetch(Storage), JNull, "")

CallAssess ==
  \E text \in Texts :
    CallFetch("assess", AssessFetch(Storage, text), JNull, "")

CallUploadFiles ==
  \E files \in FileSelections :
    CallFetch("uploadFiles", UploadFetch(Storage, files), JNull, "")

CallApi ==
  \E options \in ApiOptions :
    CallWith("api", options, ApiFetch(Storage, PUBLIC_PATH, options),
             JNull, "")

CallLogout ==
  /\ localStorage' = logout(Storage).items
  /\ storageLog' = logout(Storage).log
  /\ lastEvent' = [kind |-> "logout", before |-> localStorage,
                   previous |-> lastEvent.kind]
  /\ session' = [is |-> "loggedOut"]
  /\ UNCHANGED pending

\* The network answers the i-th pending call; the api function resumes.
CallSettles ==
  \E i \in 1..Len(pending) :
    \E res \in ResponsesTo(pending[i].fn) :
      LET t == pending[i]
          out == SettleCall(Storage, t, res)
      IN /\ t.handler = "caller"
         /\ pending' = RemoveAt(pending, i)
         /\ localStorage' = out.st.items
         /\ storageLog' = out.st.log
         /\ session' = SessionAfterSettle(t, out.completion)
         /\ lastEvent' = [kind |-> "settle", fn |-> t.fn, email |-> t.email,
                          response |-> res, completion |-> out.completion]

\* The builds: Login.tsx holds two definitions of Login (1: lines 1-49,
\* 2: lines 50-113), Signup has two (1: pages/Signup.tsx, 2: the one that
\* tells an ApiError apart); stubs says whether the api functions and
\* navigate are replaced by the test suites' stubs. The two screens share
\* no state, so each definition of each is built once.
Builds(stubs) ==
  {[login |-> 1, signup |-> 1, stubs |-> stubs],
   [login |-> 2, signup |-> 2, stubs |-> stubs]}

InitApi ==
  /\ InitStore
  /\ InitUi
  /\ build = [login |-> 1, signup |-> 2, stubs |-> FALSE]

NextApi ==
  \/ CallRegister /\ UNCHANGED uiVars
  \/ CallLogin /\ UNCHANGED uiVars
  \/ CallListFiles /\ UNCHANGED uiVars
  \/ CallBuildRag /\ UNCHANGED uiVars
  \/ CallAssess /\ UNCHANGED uiVars
  \/ CallUploadFiles /\ UNCHANGED uiVars
  \/ CallApi /\ UNCHANGED uiVars
  \/ CallLogout /\ UNCHANGED uiVars
  \/ CallSettles /\ UNCHANGED uiVars

SpecApi == InitApi /\ [][NextApi]_vars

\* ------------------------------------- the credential store, called directly

\* What a caller passes setToken and setEmail: null, undefined (through a
\* cast), the empty string, strings.
StoreArguments ==
  {JNull, JUndefined, JStr(""), JStr("T1"), JStr("a@b.com")}

\* A call of setToken or setEmail: the entries it leaves.
CallSet(fn, argument, st) ==
  /\ localStorage' = st.items
  /\ storageLog' = st.log
  /\ lastEvent' = [kind |-> "set", fn |-> fn, argument |-> argument,
                   before |-> localStorage]
  /\ UNCHANGED <<pending, session>>

CallSetToken ==
  \E token \in StoreArguments :
    CallSet("setToken", token, setToken(Storage, token))

CallSetEmail ==
  \E email \in StoreArguments :
    CallSet("setEmail", email, setEmail(Storage, email))

NextStore ==
  \/ CallSetToken /\ UNCHANGED uiVars
  \/ CallSetEmail /\ UNCHANGED uiVars

SpecStore == InitApi /\ [][NextStore]_vars

\* --------------------------------------------- claims on the api module

\* The latest event is a login call that returned.
LoginReturned ==
  /\ lastEvent.kind = "settle"
  /\ lastEvent.fn = "login"
  /\ lastEvent.completion.kind = "return"

\* The access_token of the response the latest login returned.
ReturnedToken == OptionalGet(lastEvent.completion.value, "access_token")

\* C5: login('', password) that receives a successful response with a
\* non-empty access_token stores the token and clears the stored email, so
\* that getEmail() returns null afterwards whatever was stored before.
C5_EmptyEmailLoginClearsEmail ==
  (LoginReturned /\ lastEvent.email = JStr("") /\ Truthy(ReturnedToken))
    => /\ getToken(Storage) = ReturnedToken
       /\ getEmail(Storage) = JNull

\* C6: for a non-empty email and a successful login response: with a
\* non-empty access_token T the stored token becomes T, without one the
\* stored token stays as it was; in both cases the email argument is stored
\* and login returns the parsed response object.
C6_LoginStoresTokenAndEmail ==
  [][(LoginReturned' /\ lastEvent'.email.v # "")
       => /\ IF Truthy(ReturnedToken')
               THEN getToken(Storage') = ReturnedToken'
               ELSE getToken(Storage') = getToken(Storage)
          /\ getEmail(Storage') = lastEvent'.email
          /\ lastEvent'.response.text \in JsonTexts
               => lastEvent'.completion.value
                    = JSONvalue(lastEvent'.response.text)
          /\ lastEvent'.response.text \notin JsonTexts
               => lastEvent'.completion.value = EmptyObject]_vars

C6_Witness ==
  /\ LoginReturned
  /\ lastEvent.email = JStr("a@b.com")
  /\ lastEvent.response.text = TokenT1Text
  /\ lastEvent.completion.value
       = JObj([access_token |-> JStr("T1"), user |-> JObj([id |-> JNum(1)])])
  /\ localStorage = [auth_token |-> "T1", auth_email |-> "a@b.com"]

\* C7: a login whose request fails (non-success response or transport
\* error) leaves the credential store unchanged: no entry is written or
\* removed.
C7_FailedLoginLeavesStore ==
  [][(lastEvent'.kind = "settle" /\ lastEvent'.fn = "login"
      /\ lastEvent'.completion.kind = "throw")
       => /\ localStorage' = localStorage
          /\ storageLog' = <<>>]_vars

C7_Witness ==
  /\ lastEvent.kind = "settle"
  /\ lastEvent.fn = "login"
  /\ lastEvent.email = JStr("a@b.com")
  /\ lastEvent.completion.kind = "throw"
  /\ lastEvent.completion.error.name = "ApiError"
  /\ localStorage = [auth_token |-> "T0", auth_email |-> "old@x.io"]

\* C8: once a login has returned with token T, every request issued before
\* a logout or a later login that returns with a token hands fetch the
\* header Authorization: Bearer T.
C8_RequestsCarryLoginToken ==
  (lastEvent.kind = "call" /\ session.is = "token")
    => Authorization(lastEvent.fetch) = "Bearer " \o session.token

C8_Witness ==
  /\ lastEvent.kind = "call"
  /\ lastEvent.fn = "listFiles"
  /\ session = [is |-> "token", token |-> "T2"]
  /\ lastEvent.fetch.init["headers"]
       = ("Content-Type" :> "application/json"
          @@ "Authorization" :> "Bearer T2")

\* C9 as claimed: after logout() has run, every request issued before the
\* next login that returns with a token is sent without an Authorization
\* header.
C9_NoAuthorizationAfterLogout ==
  (lastEvent.kind = "call" /\ session.is = "loggedOut")
    => Authorization(lastEvent.fetch) = ""

\* C9 as amended: after logout() has run, the gateway adds no Authorization
\* header to a request issued before the next login that returns with a
\* token: the request carries none, or the one its caller supplied.
C9_NoBearerAfterLogout ==
  (lastEvent.kind = "call" /\ session.is = "loggedOut")
    => /\ Authorization(lastEvent.fetch) \in {"", "Basic x"}
       /\ lastEvent.fn # "api" => Authorization(lastEvent.fetch) = ""

C9_Witness ==
  /\ lastEvent.kind = "call"
  /\ lastEvent.fn = "listFiles"
  /\ session.is = "loggedOut"
  /\ lastEvent.fetch.init["headers"]
       = ("Content-Type" :> "application/json")

\* C10: logout() leaves the store empty from every prior state, a second
\* logout() leaves the same empty store, and on an empty store it makes
\* the same two removeItem calls as on a populated one.
C10_LogoutClearsBoth ==
  lastEvent.kind = "logout"
    => /\ localStorage = <<>>
       /\ getToken(Storage) = JNull
       /\ getEmail(Storage) = JNull
       /\ storageLog = << <<"removeItem", TOKEN_KEY>>,
                          <<"removeItem", EMAIL_KEY>> >>

C10_Witness ==
  /\ lastEvent.kind = "logout"
  /\ lastEvent.previous = "logout"
  /\ lastEvent.before = <<>>
  /\ localStorage = <<>>

\* The Authorization entry of the headers the caller of the latest request
\* passed in its options ("" when it passed none).
CallerAuthorization ==
  IF "headers" \in DOMAIN lastEvent.options
     /\ "Authorization" \in DOMAIN lastEvent.options["headers"]
    THEN lastEvent.options["headers"]["Authorization"]
    ELSE ""

\* C11 as claimed: whatever headers the caller passes, a gateway request
\* carries an Authorization header exactly when a token is stored at call
\* time, and with a token T stored its value is 'Bearer T'.
C11_AuthorizationIffToken ==
  (lastEvent.kind = "call" /\ lastEvent.fn # "uploadFiles")
    => /\ Authorization(lastEvent.fetch) # "" <=> Truthy(getToken(Storage))
       /\ Truthy(getToken(Storage))
            => Authorization(lastEvent.fetch)
                 = "Bearer " \o getToken(Storage).v

\* C11 as amended: with a token T stored at call time the headers handed to
\* fetch hold Authorization: Bearer T whatever the caller passed; with no
\* token stored the gateway adds none, and the headers hold an Authorization
\* entry only if the caller passed one, with the caller's value. The other
\* entries of the caller's headers are handed on as they are.
C11_BearerIffTokenElseCallers ==
  (lastEvent.kind = "call" /\ lastEvent.fn # "uploadFiles")
    => /\ Authorization(lastEvent.fetch)
            = (IF Truthy(getToken(Storage))
                 THEN "Bearer " \o getToken(Storage).v
                 ELSE CallerAuthorization)
       /\ "headers" \in DOMAIN lastEvent.options
            => \A k \in DOMAIN lastEvent.options["headers"] \ {"Authorization"} :
                 lastEvent.fetch.init["headers"][k]
                   = lastEvent.options["headers"][k]

C11_Witness ==
  /\ lastEvent.kind = "call"
  /\ lastEvent.fn = "api"
  /\ lastEvent.options = [headers |-> [Authorization |-> "Basic x"]]
  /\ getToken(Storage) = JStr("T0")
  /\ lastEvent.fetch.init["headers"]
       = ("Content-Type" :> "application/json"
          @@ "Authorization" :> "Bearer T0")

\* The latest event is the completion of a call that went through api().
GatewaySettled ==
  /\ lastEvent.kind = "settle"
  /\ lastEvent.fn # "uploadFiles"

\* C12: whatever the path and the options of the call, a gateway request
\* answered by a successful response whose body is empty or is not valid
\* JSON returns the empty object {}: it does not throw and it does not
\* return the text.
C12_UnparsableBodyGivesEmptyObject ==
  (/\ GatewaySettled
   /\ lastEvent.response.transport = "response"
   /\ lastEvent.response.ok
   /\ lastEvent.response.text \notin JsonTexts)
    => lastEvent.completion = [kind |-> "return", value |-> JObj(<<>>)]

C12_Witness ==
  /\ GatewaySettled
  /\ lastEvent.fn = "api"
  /\ lastEvent.response = Response(TRUE, 200, PlainText)
  /\ lastEvent.completion = [kind |-> "return", value |-> JObj(<<>>)]

\* C13: the gateway throws an ApiError exactly when the response has a
\* non-success status, and that error has the status of the response, the
\* path argument as url, the text of the response as body (the empty string
\* when there is none) and the message 'Request failed (<status>)'.
C13_ApiErrorIffNotOk ==
  GatewaySettled
    => /\ (/\ lastEvent.completion.kind = "throw"
            /\ lastEvent.completion.error.name = "ApiError")
            <=> (/\ lastEvent.response.transport = "response"
                 /\ ~lastEvent.response.ok)
       /\ (/\ lastEvent.response.transport = "response"
            /\ ~lastEvent.response.ok)
            => lastEvent.completion.error
                 = [name |-> "ApiError",
                    message |-> "Request failed ("
                                \o ToString(lastEvent.response.status)
                                \o ")",
                    status |-> lastEvent.response.status,
                    url |-> PathOf(lastEvent.fn),
                    body |-> lastEvent.response.text]

C13_Witness ==
  /\ GatewaySettled
  /\ lastEvent.fn = "login"
  /\ lastEvent.response = Response(FALSE, 500, "")
  /\ lastEvent.completion.kind = "throw"
  /\ lastEvent.completion.error
       = [name |-> "ApiError", message |-> "Request failed (500)",
          status |-> 500, url |-> "/api/auth/login", body |-> ""]

\* ------------------------------------------------ router and route guard

PROTECTED == {"/dashboard", "/assess"}

\* The guard as it would be if it let every request through.
ProtectedRouteOpen(st, to) == to

\* ProtectedRoute: the location shown for a requested one.
ProtectedRoute(st, to) ==
  IF to \in PROTECTED /\ ~Truthy(getToken(st)) THEN "/login" ELSE to

\* The state of the location shown: the guard's redirect carries the
\* location that was requested, navigate(to) and the links carry none.
RedirectState(st, to) ==
  IF ProtectedRoute(st, to) # to THEN [from |-> to] ELSE JNull

\* Every invocation started by the screen that unmounts outlives it.
Discard(tasks) == [i \in 1..Len(tasks) |-> [tasks[i] EXCEPT !.alive = FALSE]]

\* Dashboard's useEffect: refresh() on mount.
MountEffects(to) ==
  IF to = "/dashboard"
    THEN <<Task("Dashboard.refresh", "listFiles", JNull, "", <<"listFiles">>)>>
    ELSE <<>>

\* navigate(to) with storage st and suspended invocations tasks: the same
\* location keeps the mounted screen; another one unmounts it and mounts
\* the screen the guard lets through.
navigate(st, tasks, to) ==
  IF to = route
    THEN [route |-> route, state |-> locationState, pending |-> tasks,
          navbar |-> getToken(st), remount |-> FALSE]
    ELSE [route |-> ProtectedRoute(st, to),
          state |-> RedirectState(st, to),
          navbar |-> getToken(st),
          pending |-> Discard(tasks) \o MountEffects(ProtectedRoute(st, to)),
          remount |-> TRUE]

\* The step mounts a fresh screen as navigate found.
Remount(nav) ==
  /\ route' = nav.route
  /\ locationState' = nav.state
  /\ navbar' = nav.navbar
  /\ pending' = nav.pending
  /\ login' = InitialLogin
  /\ signup' = InitialSignup
  /\ assessPage' = InitialAssess
  /\ dashboard' = InitialDashboard
  /\ fileInput' = ""
  /\ submits' = InitialSubmits

\* ------------------------------------------------------ user's triggers

\* A trigger as it would be if its disabled attribute were not bound to the
\* busy flag.
NeverDisabled == FALSE

\* The Build RAG button as it would be if an upload disabled it too.
BuildDisabledWhileBusy == dashboard.building \/ dashboard.uploading

\* The disabled attribute of each trigger.
LoginDisabled == login.loading
SignupDisabled == signup.loading
AssessDisabled == assessPage.loading
BuildDisabled == dashboard.building
UploadDisabled == FALSE

\* A trigger that is disabled dispatches no event: no handler runs.
IgnoredClick(c) ==
  /\ lastEvent' = [kind |-> "ignored", trigger |-> c]
  /\ storageLog' = <<>>
  /\ UNCHANGED <<localStorage, pending, session, location, navbar, login, signup,
                 assessPage, dashboard, fileInput, submits, build>>

\* The handler of trigger c starts: one more invocation is suspended.
\* shown is what the screen displayed as the handler started.
Started(c, task, busy, shown) ==
  /\ Len(pending) < MaxPending
  /\ pending' = Append(pending, task)
  /\ submits' = [submits EXCEPT ![c] = IF busy THEN @ + 1 ELSE 1]
  /\ lastEvent' = [kind |-> "started", trigger |-> c, shown |-> shown]
  /\ storageLog' = <<>>
  /\ UNCHANGED <<localStorage, session, location, navbar, build>>

\* The email and the text inputs are required: the form submits no empty one.
FormEmails == Emails \ {""}
FormTexts == Texts \ {""}

SubmitLogin ==
  /\ route = "/login"
  /\ IF LoginDisabled THEN IgnoredClick("login")
     ELSE \E e \in FormEmails, p \in Passwords :
       /\ Started("login",
                  Task("Login.onSubmit", "login", JStr(e), p, <<"login">>),
                  login.loading, login.error)
       /\ login' = [loading |-> TRUE, error |-> JNull]
       /\ UNCHANGED <<signup, assessPage, dashboard, fileInput>>

SubmitSignup ==
  /\ route = "/signup"
  /\ IF SignupDisabled THEN IgnoredClick("signup")
     ELSE \E e \in FormEmails, p \in Passwords :
       /\ Started("signup",
                  Task("Signup.onSubmit", "register", JStr(e), p,
                       <<"register">>),
                  signup.loading, signup.error)
       /\ signup' = [loading |-> TRUE, error |-> JNull]
       /\ UNCHANGED <<login, assessPage, dashboard, fileInput>>

\* Assess.onSubmit's start as it would be without setResult(null).
AssessStartedKeepsResult(a) == [a EXCEPT !.loading = TRUE, !.error = JNull]

\* Assess.onSubmit up to its await: setLoading(true), setError(null),
\* setResult(null).
AssessStarted(a) == [loading |-> TRUE, error |-> JNull, result |-> JNull]

SubmitAssess ==
  /\ route = "/assess"
  /\ IF AssessDisabled THEN IgnoredClick("assess")
     ELSE \E text \in FormTexts :
       /\ Started("assess",
                  Task("Assess.onSubmit", "assess", JNull, "", <<"assess">>),
                  assessPage.loading,
                  [error |-> assessPage.error, result |-> assessPage.result])
       /\ assessPage' = AssessStarted(assessPage)
       /\ UNCHANGED <<login, signup, dashboard, fileInput>>

ClickBuildRag ==
  /\ route = "/dashboard"
  /\ IF BuildDisabled THEN IgnoredClick("build")
     ELSE /\ Started("build",
                     Task("Dashboard.onBuildRag", "buildRag", JNull, "",
                          <<"buildRag">>),
                     dashboard.building, dashboard.message)
          /\ dashboard' = [dashboard EXCEPT !.building = TRUE,
                                            !.message = JNull]
          /\ UNCHANGED <<login, signup, assessPage, fileInput>>

\* The change event of the file input, with the selection the user made
\* (an input fires no change event for the selection it already holds).
SelectFiles ==
  /\ route = "/dashboard"
  /\ IF UploadDisabled THEN IgnoredClick("upload")
     ELSE \E files \in FileSelections :
       IF Len(files) = 0
         THEN /\ fileInput # ""
              /\ fileInput' = ""
              /\ lastEvent' = [kind |-> "ignored", trigger |-> "upload"]
              /\ storageLog' = <<>>
              /\ UNCHANGED <<localStorage, pending, session, location, navbar, login,
                             signup, assessPage, dashboard, submits, build>>
         ELSE /\ files[1] # fileInput
              /\ Started("upload",
                         Task("Dashboard.onUploadSelected", "uploadFiles",
                              JNull, "", <<"uploadFiles">>),
                         dashboard.uploading, dashboard.message)
              /\ fileInput' = files[1]
              /\ dashboard' = [dashboard EXCEPT !.uploading = TRUE,
                                                !.message = JNull]
              /\ UNCHANGED <<login, signup, assessPage>>

\* A link of the Navbar: the guest's links when it rendered without a token,
\* the user's when it rendered with one.
NavbarLinks ==
  IF Truthy(navbar) THEN {"/", "/dashboard", "/assess"}
                               ELSE {"/", "/signup", "/login"}

FollowLink ==
  \E to \in NavbarLinks :
    LET nav == navigate(Storage, pending, to)
    IN /\ nav.remount
       /\ Len(nav.pending) <= MaxPending
       /\ Remount(nav)
       /\ lastEvent' = [kind |-> "link", to |-> to]
       /\ storageLog' = <<>>
       /\ UNCHANGED <<localStorage, session, build>>

\* Navbar.handleLogout (the Logout button is rendered with the user's
\* links): logout(), then navigate('/').
handleLogout ==
  /\ Truthy(navbar)
  /\ LET st == logout(Storage)
         nav == navigate(st, pending, "/")
     IN /\ localStorage' = st.items
        /\ storageLog' = st.log
        /\ IF nav.remount THEN Remount(nav)
           ELSE /\ navbar' = nav.navbar
                /\ UNCHANGED <<location, pending, login, signup, assessPage,
                               dashboard, fileInput, submits>>
  /\ lastEvent' = [kind |-> "logout", before |-> localStorage,
                   previous |-> lastEvent.kind]
  /\ UNCHANGED <<session, build>>

\* ----------------------------------------------- the handlers' resumptions

\* What the test suites' stubs of the api functions reject with: null,
\* undefined, a plain object, a string, an Error without a message, an
\* Error with one, an ApiError.
StubRejections ==
  {JNull, JUndefined, JObj(<<>>), JStr("Something went wrong"),
   [name |-> "Error", message |-> ""],
   [name |-> "Error", message |-> "Network connection failed"],
   ApiError("Request failed (401)", 401, "/api/login", "Invalid credentials")}

\* What the stub of each api function resolves with.
StubValue(fn) ==
  CASE fn = "listFiles" -> JSONvalue(FilesText)
    [] fn = "buildRag" -> JSONvalue(BuiltText)
    [] fn = "assess" -> JSONvalue(GradeText)
    [] OTHER -> JUndefined

Stub(c) == [transport |-> "stub", completion |-> c]

\* The answers an awaited api function may get: those of the network, or,
\* where the api functions are stubs, what the stub resolves or rejects
\* with.
Answers(fn) ==
  IF build.stubs
    THEN {Stub(Return(StubValue(fn)))}
         \cup {Stub(Throw(v)) : v \in StubRejections}
    ELSE UiResponsesTo(fn)

\* The completion of the api function task t awaits and the storage it
\* leaves: the stub's completion, or that of the api module.
Outcome(st, t, res) ==
  IF res.transport = "stub" THEN [st |-> st, completion |-> res.completion]
  ELSE SettleCall(st, t, res)

\* navigate('/dashboard') returns; the test suites' stub of it may throw,
\* and changes no location when it returns.
NavigateError == [name |-> "Error", message |-> "Navigation failed"]
NavigateOutcomes ==
  IF build.stubs THEN {"returns", "throws"} ELSE {"returns"}

\* The function useNavigate() hands a handler, called with to.
useNavigate(st, tasks, to) ==
  IF build.stubs
    THEN [route |-> route, state |-> locationState, pending |-> tasks,
          navbar |-> navbar, remount |-> FALSE]
    ELSE navigate(st, tasks, to)

\* A thrown value is an Error object (a record with its name and message)
\* or any other JavaScript value.
IsError(v) == "name" \in DOMAIN v

\* err instanceof ApiError
IsApiError(v) == IsError(v) /\ v.name = "ApiError"

\* v?.message
OptionalMessage(v) ==
  IF IsError(v) THEN JStr(v.message) ELSE OptionalGet(v, "message")

\* err?.message || fallback
MessageOr(err, fallback) ==
  IF Truthy(OptionalMessage(err)) THEN OptionalMessage(err).v ELSE fallback

\* The TypeError of reading a property of null or undefined.
TypeErrorReading(v) ==
  [name |-> "TypeError",
   message |-> "Cannot read properties of " \o v.type
               \o " (reading 'message')"]

\* e.message || fallback: the read throws when e is null or undefined.
DotMessageOr(e, fallback) ==
  IF ~IsError(e) /\ e.type \in {"null", "undefined"}
    THEN Throw(TypeErrorReading(e))
    ELSE Return(MessageOr(e, fallback))

\* The message shown after setMessage(m) / setError(m), where evaluating m
\* completed with c: the setter is not called when the evaluation threw.
Shown(c, old) == IF c.kind = "return" THEN JStr(c.value) ELSE old

\* Login.onSubmit's catch, in each of the two definitions of Login.tsx.
LoginMessage(err) ==
  IF IsApiError(err)
    THEN IF build.login = 1
           THEN "Login failed (" \o ToString(err.status) \o ") at "
                \o err.url \o ". Response: " \o err.body
           ELSE "Login failed (" \o ToString(err.status)
                \o "). Please check your credentials and try again."
    ELSE MessageOr(err, "Failed to log in")

\* Login.onSubmit's catch and finally as they would be without the finally.
LoginCaughtStaysBusy(err) ==
  [loading |-> TRUE, error |-> JStr(LoginMessage(err))]

\* Login.onSubmit's catch and finally.
LoginCaught(err) == [loading |-> FALSE, error |-> JStr(LoginMessage(err))]

\* Signup.onSubmit's catch, in each of the two definitions of Signup: the
\* completion of the evaluation of the message.
SignupMessage(err) ==
  IF build.signup = 1 THEN DotMessageOr(err, "Failed to sign up")
  ELSE IF IsApiError(err)
    THEN Return("Signup failed (" \o ToString(err.status) \o ") at "
                \o err.url \o ". Response: " \o err.body)
  ELSE Return(MessageOr(err, "Failed to sign up"))

\* Signup.onSubmit's catch and finally.
SignupCaught(s, err) ==
  [loading |-> FALSE, error |-> Shown(SignupMessage(err), s.error)]

\* onBuildRag's message as it would be with || in the place of ??.
BuildMessageOr(res) ==
  LET n == OptionalGet(res, "files_indexed")
  IN "RAG built: "
     \o (IF ~Truthy(n) THEN "?"
         ELSE IF n.type = "number" THEN ToString(n.n) ELSE n.v)
     \o " files indexed"

\* `RAG built: ${res.files_indexed ?? '?'} files indexed`
BuildMessage(res) ==
  LET n == OptionalGet(res, "files_indexed")
  IN "RAG built: "
     \o (IF n.type = "number" THEN ToString(n.n)
         ELSE IF n.type = "string" THEN n.v ELSE "?")
     \o " files indexed"

\* x.toFixed(1) for the numbers of the model (none is negative): the
\* decimal with one digit after the point that is nearest to x, the larger
\* one when two are as near. Tenths(x) is that decimal counted in tenths.
Tenths(x) == (x.n * 100 + Hundredths(x) + 5) \div 10

toFixed1(x) == ToString(Tenths(x) \div 10) \o "." \o ToString(Tenths(x) % 10)

\* What the Assess screen renders below its form: the error paragraph, and
\* the heading and the paragraph of the result ("" for what is not
\* rendered).
AssessView(a) ==
  [error |-> IF Truthy(a.error) THEN a.error.v ELSE "",
   heading |-> IF Truthy(a.result)
                 THEN "Grade: " \o toFixed1(OptionalGet(a.result, "grade"))
                      \o " / 10"
                 ELSE "",
   explanation |-> IF Truthy(a.result)
                     THEN OptionalGet(a.result, "explanation").v
                     ELSE ""]

\* A handler as it would be if it went on after an awaited call that threw.
AlwaysProceeds(c) == TRUE

\* An awaited call that throws leaves the try block: the statements after
\* the await run only when it returns.
Proceeds(c) == c.kind = "return"

\* The end of an invocation: the steps it took, the value its try block
\* threw (none when it threw nothing) and whether the handler itself threw.
NoRejection == [type |-> "none"]

Ended(t, steps, rejection, threw) ==
  [kind |-> "finished", handler |-> t.handler, alive |-> t.alive,
   steps |-> steps, rejection |-> rejection, threw |-> threw]

Finished(t, steps) == Ended(t, steps, NoRejection, FALSE)

\* The end of an invocation whose last awaited call returned value.
FinishedWith(t, steps, value) == [value |-> value] @@ Finished(t, steps)

Resumed(t, steps) ==
  [kind |-> "resumed", handler |-> t.handler, alive |-> t.alive,
   steps |-> steps]

\* Login.onSubmit resumes after login().
LoginSettles ==
  \E i \in 1..Len(pending) : \E res \in Answers("login") :
    \E went \in NavigateOutcomes :
      LET t == pending[i]
          out == Outcome(Storage, t, res)
          returned == Proceeds(out.completion)
          ok == returned /\ went = "returns"
          err == IF returned THEN NavigateError ELSE out.completion.error
          nav == useNavigate(out.st, RemoveAt(pending, i), "/dashboard")
      IN /\ t.handler = "Login.onSubmit"
         /\ (went = "throws") => returned
         /\ localStorage' = out.st.items
         /\ storageLog' = out.st.log
         /\ UNCHANGED session
         /\ lastEvent' =
              IF ok THEN Finished(t, t.hist \o <<"login:ok", "navigate">>)
              ELSE IF returned
                THEN Ended(t, t.hist \o <<"login:ok", "navigate:throw">>,
                           err, FALSE)
              ELSE Ended(t, t.hist \o <<"login:throw">>, err, FALSE)
         /\ IF ok /\ nav.remount THEN Remount(nav)
            ELSE /\ pending' = RemoveAt(pending, i)
                 /\ login' = IF ~t.alive THEN login
                             ELSE IF ok THEN [login EXCEPT !.loading = FALSE]
                             ELSE LoginCaught(err)
                 /\ navbar' = IF ok THEN nav.navbar ELSE navbar
                 /\ UNCHANGED <<location, signup, assessPage, dashboard,
                                fileInput, submits>>
         /\ UNCHANGED build

\* Signup.onSubmit resumes after register(): login() is called next.
SignupRegisterSettles ==
  \E i \in 1..Len(pending) : \E res \in Answers("register") :
    LET t == pending[i]
        out == Outcome(Storage, t, res)
    IN /\ t.handler = "Signup.onSubmit"
       /\ t.fn = "register"
       /\ storageLog' = <<>>
       /\ IF Proceeds(out.completion)
            THEN /\ pending' =
                      [pending EXCEPT
                         ![i] = [t EXCEPT
                                   !.fn = "login",
                                   !.hist = @ \o IF out.completion.kind
                                                      = "return"
                                                   THEN <<"register:ok",
                                                          "login">>
                                                   ELSE <<"register:throw",
                                                          "login">>]]
                 /\ lastEvent' = Resumed(t, pending'[i].hist)
                 /\ UNCHANGED signup
            ELSE /\ pending' = RemoveAt(pending, i)
                 /\ lastEvent' =
                      Ended(t, t.hist \o <<"register:throw">>,
                            out.completion.error,
                            SignupMessage(out.completion.error).kind
                              = "throw")
                 /\ signup' = IF ~t.alive THEN signup
                              ELSE SignupCaught(signup, out.completion.error)
       /\ UNCHANGED <<localStorage, session, location, navbar, login,
                      assessPage, dashboard, fileInput, submits, build>>

\* Signup.onSubmit resumes after login(): navigate('/dashboard') is next.
SignupLoginSettles ==
  \E i \in 1..Len(pending) : \E res \in Answers("login") :
    \E went \in NavigateOutcomes :
      LET t == pending[i]
          out == Outcome(Storage, t, res)
          returned == out.completion.kind = "return"
          proceeds == Proceeds(out.completion)
          ok == proceeds /\ went = "returns"
          err == IF returned THEN NavigateError ELSE out.completion.error
          nav == useNavigate(out.st, RemoveAt(pending, i), "/dashboard")
      IN /\ t.handler = "Signup.onSubmit"
         /\ t.fn = "login"
         /\ (went = "throws") => proceeds
         /\ localStorage' = out.st.items
         /\ storageLog' = out.st.log
         /\ UNCHANGED session
         /\ lastEvent' =
              Ended(t,
                    t.hist \o (IF returned THEN <<"login:ok">>
                                           ELSE <<"login:throw">>)
                           \o (IF ok THEN <<"navigate">>
                               ELSE IF proceeds THEN <<"navigate:throw">>
                               ELSE <<>>),
                    IF ok /\ returned THEN NoRejection ELSE err,
                    ~(ok /\ returned) /\ SignupMessage(err).kind = "throw")
         /\ IF ok /\ nav.remount THEN Remount(nav)
            ELSE /\ pending' = RemoveAt(pending, i)
                 /\ signup' = IF ~t.alive THEN signup
                              ELSE IF ok /\ returned
                                THEN [signup EXCEPT !.loading = FALSE]
                              ELSE SignupCaught(signup, err)
                 /\ navbar' = IF ok THEN nav.navbar ELSE navbar
                 /\ UNCHANGED <<location, login, assessPage, dashboard,
                                fileInput, submits>>
         /\ UNCHANGED build

\* Assess.onSubmit resumes after assess().
AssessSettles ==
  \E i \in 1..Len(pending) : \E res \in Answers("assess") :
    LET t == pending[i]
        out == Outcome(Storage, t, res)
        ok == out.completion.kind = "return"
        m == DotMessageOr(out.completion.error, "Failed to assess text")
    IN /\ t.handler = "Assess.onSubmit"
       /\ pending' = RemoveAt(pending, i)
       /\ storageLog' = <<>>
       /\ lastEvent' =
            IF ok THEN FinishedWith(t, t.hist \o <<"assess:ok">>,
                                    out.completion.value)
            ELSE Ended(t, t.hist \o <<"assess:throw">>, out.completion.error,
                       m.kind = "throw")
       /\ assessPage' =
            IF ~t.alive THEN assessPage
            ELSE IF ok
              THEN [assessPage EXCEPT !.loading = FALSE,
                                      !.result = out.completion.value]
            ELSE [assessPage EXCEPT !.loading = FALSE,
                                    !.error = Shown(m, @)]
       /\ UNCHANGED <<localStorage, session, location, navbar, login, signup,
                      dashboard, fileInput, submits, build>>

\* refresh(), after listFiles() completed with c: its own completion.
RefreshCompletion(c) ==
  IF c.kind = "return" THEN Return(JUndefined)
  ELSE IF DotMessageOr(c.error, "Failed to list files").kind = "throw"
    THEN DotMessageOr(c.error, "Failed to list files")
  ELSE Return(JUndefined)

\* refresh() as it would be if a failure emptied the list.
RefreshResultClearsList(d, c) ==
  IF c.kind = "return" THEN [d EXCEPT !.files = c.value]
  ELSE [d EXCEPT
          !.files = JArr(<<>>),
          !.message = Shown(DotMessageOr(c.error, "Failed to list files"), @)]

\* refresh(), after listFiles(): the list is replaced or the error shown.
RefreshResult(d, c) ==
  IF c.kind = "return" THEN [d EXCEPT !.files = c.value]
  ELSE [d EXCEPT
          !.message = Shown(DotMessageOr(c.error, "Failed to list files"), @)]

\* The refresh() that Dashboard's mount effect started resumes.
RefreshSettles ==
  \E i \in 1..Len(pending) : \E res \in Answers("listFiles") :
    LET t == pending[i]
        out == Outcome(Storage, t, res)
    IN /\ t.handler = "Dashboard.refresh"
       /\ pending' = RemoveAt(pending, i)
       /\ storageLog' = <<>>
       /\ lastEvent' =
            IF out.completion.kind = "return"
              THEN FinishedWith(t, t.hist \o <<"listFiles:ok">>,
                                out.completion.value)
              ELSE Ended(t, t.hist \o <<"listFiles:throw">>,
                         out.completion.error,
                         RefreshCompletion(out.completion).kind = "throw")
       /\ dashboard' = IF ~t.alive THEN dashboard
                       ELSE RefreshResult(dashboard, out.completion)
       /\ UNCHANGED <<localStorage, session, location, navbar, login, signup,
                      assessPage, fileInput, submits, build>>

\* onUploadSelected's finally as it would be without setUploading(false).
UploadFinallyStaysBusy(d) == d

\* onUploadSelected's finally: setUploading(false) (the reset of the file
\* input is the fileInput of the step).
UploadFinally(d) == [d EXCEPT !.uploading = FALSE]

\* Dashboard.onUploadSelected resumes after uploadFiles(): refresh() next.
UploadSettles ==
  \E i \in 1..Len(pending) : \E res \in Answers("uploadFiles") :
    LET t == pending[i]
        out == Outcome(Storage, t, res)
        ok == Proceeds(out.completion)
        m == DotMessageOr(out.completion.error, "Upload failed")
    IN /\ t.handler = "Dashboard.onUploadSelected"
       /\ t.fn = "uploadFiles"
       /\ storageLog' = <<>>
       /\ IF ok
            THEN /\ pending' =
                      [pending EXCEPT
                         ![i] = [t EXCEPT
                                   !.fn = "listFiles",
                                   !.hist = @ \o IF out.completion.kind
                                                      = "return"
                                                   THEN <<"uploadFiles:ok",
                                                          "listFiles">>
                                                   ELSE <<"uploadFiles:throw",
                                                          "listFiles">>]]
                 /\ lastEvent' = Resumed(t, pending'[i].hist)
                 /\ dashboard' =
                      IF ~t.alive THEN dashboard
                      ELSE [dashboard EXCEPT
                              !.message = JStr("Upload complete")]
                 /\ UNCHANGED fileInput
            ELSE /\ pending' = RemoveAt(pending, i)
                 /\ lastEvent' =
                      Ended(t, t.hist \o <<"uploadFiles:throw">>,
                            out.completion.error, m.kind = "throw")
                 /\ dashboard' =
                      IF ~t.alive THEN dashboard
                      ELSE UploadFinally([dashboard EXCEPT
                                            !.message = Shown(m, @)])
                 /\ fileInput' = IF t.alive THEN "" ELSE fileInput
       /\ UNCHANGED <<localStorage, session, location, navbar, login, signup,
                      assessPage, submits, build>>

\* Dashboard.onUploadSelected resumes after its refresh(), and ends: a
\* refresh() that threw is caught by onUploadSelected's own catch.
UploadRefreshSettles ==
  \E i \in 1..Len(pending) : \E res \in Answers("listFiles") :
    LET t == pending[i]
        out == Outcome(Storage, t, res)
        refreshed == RefreshCompletion(out.completion)
        m == DotMessageOr(refreshed.error, "Upload failed")
    IN /\ t.handler = "Dashboard.onUploadSelected"
       /\ t.fn = "listFiles"
       /\ pending' = RemoveAt(pending, i)
       /\ storageLog' = <<>>
       /\ lastEvent' =
            IF out.completion.kind = "return"
              THEN FinishedWith(t, t.hist \o <<"listFiles:ok">>,
                                out.completion.value)
              ELSE Ended(t, t.hist \o <<"listFiles:throw">>,
                         out.completion.error, FALSE)
       /\ dashboard' =
            IF ~t.alive THEN dashboard
            ELSE IF refreshed.kind = "return"
              THEN UploadFinally(RefreshResult(dashboard, out.completion))
            ELSE UploadFinally([RefreshResult(dashboard, out.completion)
                                  EXCEPT !.message = Shown(m, @)])
       /\ fileInput' = IF t.alive THEN "" ELSE fileInput
       /\ UNCHANGED <<localStorage, session, location, navbar, login, signup,
                      assessPage, submits, build>>

\* Dashboard.onBuildRag resumes after buildRag().
BuildSettles ==
  \E i \in 1..Len(pending) : \E res \in Answers("buildRag") :
    LET t == pending[i]
        out == Outcome(Storage, t, res)
        ok == out.completion.kind = "return"
        m == DotMessageOr(out.completion.error, "Failed to build RAG")
    IN /\ t.handler = "Dashboard.onBuildRag"
       /\ pending' = RemoveAt(pending, i)
       /\ storageLog' = <<>>
       /\ lastEvent' =
            IF ok THEN FinishedWith(t, t.hist \o <<"buildRag:ok">>,
                                    out.completion.value)
            ELSE Ended(t, t.hist \o <<"buildRag:throw">>,
                       out.completion.error, m.kind = "throw")
       /\ dashboard' =
            IF ~t.alive THEN dashboard
            ELSE [dashboard EXCEPT
                    !.building = FALSE,
                    !.message =
                       IF ok THEN JStr(BuildMessage(out.completion.value))
                       ELSE Shown(m, @)]
       /\ UNCHANGED <<localStorage, session, location, navbar, login, signup,
                      assessPage, fileInput, submits, build>>

Init == InitStore /\ InitUi /\ build \in Builds(FALSE)

Next ==
  \/ SubmitLogin
  \/ SubmitSignup
  \/ SubmitAssess
  \/ ClickBuildRag
  \/ SelectFiles
  \/ FollowLink
  \/ handleLogout
  \/ LoginSettles
  \/ SignupRegisterSettles
  \/ SignupLoginSettles
  \/ AssessSettles
  \/ RefreshSettles
  \/ UploadSettles
  \/ UploadRefreshSettles
  \/ BuildSettles

Spec == Init /\ [][Next]_vars

\* The same screens where the api functions and the navigate of the
\* handlers are the stubs of the test suites: an api function resolves or
\* rejects with any value and touches no storage, navigate returns without
\* navigating or throws. The links, the guard and logout are the real ones.
InitStubs == InitStore /\ InitUi /\ build \in Builds(TRUE)

SpecStubs == InitStubs /\ [][Next]_vars

\* ------------------------------------------------ claims on the workflows

\* The invocations of handler h that the mounted screen started and that
\* are still suspended.
InFlight(h) ==
  Cardinality({i \in 1..Len(pending) :
                 pending[i].handler = h /\ pending[i].alive})

\* Those among them that await the api function fn.
Outstanding(h, fn) ==
  Cardinality({i \in 1..Len(pending) :
                 /\ pending[i].handler = h
                 /\ pending[i].alive
                 /\ pending[i].fn = fn})

\* C1: each mounted Login, Signup and Assess controller has at most one
\* submission in flight: it is Busy exactly while that one is suspended,
\* and however many submit triggers arrive while it is Busy, its handler
\* has run once (one login / register / assess call).
C1_OneSubmissionInFlight ==
  /\ InFlight("Login.onSubmit") <= 1
  /\ login.loading <=> InFlight("Login.onSubmit") = 1
  /\ login.loading => submits["login"] = 1
  /\ InFlight("Signup.onSubmit") <= 1
  /\ signup.loading <=> InFlight("Signup.onSubmit") = 1
  /\ signup.loading => submits["signup"] = 1
  /\ InFlight("Assess.onSubmit") <= 1
  /\ assessPage.loading <=> InFlight("Assess.onSubmit") = 1
  /\ assessPage.loading => submits["assess"] = 1

C1_Witness ==
  /\ lastEvent = [kind |-> "ignored", trigger |-> "login"]
  /\ login.loading
  /\ submits["login"] = 1
  /\ Outstanding("Login.onSubmit", "login") = 1

\* C2: in the mounted Dashboard, however many times Build RAG is pressed
\* while a build is pending, one buildRag call is outstanding; the next one
\* is issued only after it has settled.
C2_OneBuildInFlight ==
  /\ Outstanding("Dashboard.onBuildRag", "buildRag") <= 1
  /\ dashboard.building <=> Outstanding("Dashboard.onBuildRag", "buildRag") = 1
  /\ dashboard.building => submits["build"] = 1

C2_Witness ==
  /\ lastEvent = [kind |-> "ignored", trigger |-> "build"]
  /\ dashboard.building
  /\ submits["build"] = 1
  /\ Outstanding("Dashboard.onBuildRag", "buildRag") = 1

\* C3: in the mounted Dashboard at most one uploadFiles request is
\* outstanding: a second non-empty selection made while an upload is
\* pending issues no second uploadFiles call.
C3_OneUploadInFlight ==
  Outstanding("Dashboard.onUploadSelected", "uploadFiles") <= 1

\* The steps one run of Signup.onSubmit may have taken.
SignupAwaitingRegister == <<"register">>
SignupAwaitingLogin == <<"register", "register:ok", "login">>
SignupRegisterFailed == <<"register", "register:throw">>
SignupLoginFailed == <<"register", "register:ok", "login", "login:throw">>
SignupDone ==
  <<"register", "register:ok", "login", "login:ok", "navigate">>

\* The suspended runs of Signup.onSubmit await register as their first
\* step, or login after register has returned.
SignupRunsInOrder ==
  \A i \in 1..Len(pending) :
    (pending[i].handler = "Signup.onSubmit")
      => (\/ (pending[i].fn = "register"
              /\ pending[i].hist = SignupAwaitingRegister)
          \/ (pending[i].fn = "login"
              /\ pending[i].hist = SignupAwaitingLogin))

\* The run of Signup.onSubmit that has just resumed or ended took its
\* steps in order.
SignupStepsInOrder ==
  /\ (lastEvent.kind = "resumed" /\ lastEvent.handler = "Signup.onSubmit")
       => (lastEvent.steps = SignupAwaitingLogin)
  /\ (lastEvent.kind = "finished" /\ lastEvent.handler = "Signup.onSubmit")
       => (lastEvent.steps
             \in {SignupRegisterFailed, SignupLoginFailed, SignupDone})

\* A step that ends a run of Signup.onSubmit changes the location only by
\* the navigate('/dashboard') of a run in which both calls returned.
SignupNavigatesWhenDone ==
  (lastEvent'.kind = "finished" /\ lastEvent'.handler = "Signup.onSubmit")
    => (IF lastEvent'.steps = SignupDone
          THEN route' = ProtectedRoute(Storage', "/dashboard")
          ELSE route' = route)

\* C4: every run of Signup.onSubmit calls register first, calls login only
\* after register has returned, and navigates to /dashboard only after
\* login has returned too; a run in which either throws ends there, and the
\* location stays as it was.
C4_SignupSequence ==
  /\ [](SignupRunsInOrder /\ SignupStepsInOrder)
  /\ [][SignupNavigatesWhenDone]_vars

C4_Witness ==
  /\ lastEvent.kind = "finished"
  /\ lastEvent.handler = "Signup.onSubmit"
  /\ lastEvent.alive
  /\ lastEvent.steps = SignupDone
  /\ route = "/dashboard"

\* The location an event asked the router for ("" when it asked for none):
\* the link followed, the '/dashboard' of Login's and Signup's navigate, the
\* '/' of handleLogout's.
Requested(ev) ==
  IF ev.kind = "link" THEN ev.to
  ELSE IF ev.kind = "finished" /\ ev.steps[Len(ev.steps)] = "navigate"
    THEN "/dashboard"
  ELSE IF ev.kind = "logout" THEN "/"
  ELSE ""

\* A step that asks for a protected location shows it when a token is
\* stored as the guard renders, and shows /login with the requested
\* location as state.from when none is; the guard makes no localStorage
\* call: a link leaves the store as it was, and a navigate after login
\* leaves it as login's own setItem calls did.
GuardDecides ==
  (Requested(lastEvent') \in PROTECTED)
    => (/\ IF Truthy(getToken(Storage'))
              THEN /\ route' = Requested(lastEvent')
                   /\ locationState' = JNull
              ELSE /\ route' = "/login"
                   /\ locationState' = [from |-> Requested(lastEvent')]
        /\ (lastEvent'.kind = "link")
              => (localStorage' = localStorage /\ storageLog' = <<>>)
        /\ \A i \in 1..Len(storageLog') : storageLog'[i][1] = "setItem")

\* C14: on every navigation to /dashboard or /assess the guard renders the
\* requested screen exactly when a token is stored at that moment, and
\* otherwise redirects to /login carrying the requested location; the
\* guard does not change the credential store.
C14_GuardRendersIffToken == [][GuardDecides]_vars

C14_Witness ==
  /\ lastEvent.kind = "finished"
  /\ lastEvent.handler = "Login.onSubmit"
  /\ Requested(lastEvent) = "/dashboard"
  /\ ~Truthy(getToken(Storage))
  /\ route = "/login"
  /\ locationState = [from |-> "/dashboard"]

\* A busy flag is set only while an invocation of its handler is suspended.
NoBusyWithoutPending ==
  /\ login.loading => InFlight("Login.onSubmit") >= 1
  /\ signup.loading => InFlight("Signup.onSubmit") >= 1
  /\ assessPage.loading => InFlight("Assess.onSubmit") >= 1
  /\ dashboard.building => InFlight("Dashboard.onBuildRag") >= 1
  /\ dashboard.uploading => InFlight("Dashboard.onUploadSelected") >= 1

\* The step that ends an invocation of a mounted controller's handler
\* leaves its busy flag false and its trigger enabled.
ReleasedWhenEnded ==
  (lastEvent'.kind = "finished" /\ lastEvent'.alive)
    => (/\ (lastEvent'.handler = "Login.onSubmit")
              => (~login'.loading /\ ~LoginDisabled')
        /\ (lastEvent'.handler = "Signup.onSubmit")
              => (~signup'.loading /\ ~SignupDisabled')
        /\ (lastEvent'.handler = "Assess.onSubmit")
              => (~assessPage'.loading /\ ~AssessDisabled')
        /\ (lastEvent'.handler = "Dashboard.onBuildRag")
              => (~dashboard'.building /\ ~BuildDisabled')
        /\ (lastEvent'.handler = "Dashboard.onUploadSelected")
              => (~dashboard'.uploading /\ ~UploadDisabled'))

\* C15: a controller that entered Busy is Idle again (busy flag false,
\* trigger enabled) once its pending request has settled, whether the
\* request returned, threw any value, or returned and navigate threw after
\* it.
C15_BusyReleased ==
  /\ []NoBusyWithoutPending
  /\ [][ReleasedWhenEnded]_vars

C15_Witness ==
  /\ lastEvent.kind = "finished"
  /\ lastEvent.handler = "Login.onSubmit"
  /\ lastEvent.alive
  /\ lastEvent.steps = <<"login", "login:ok", "navigate:throw">>
  /\ lastEvent.rejection = [name |-> "Error", message |-> "Navigation failed"]
  /\ login = [loading |-> FALSE, error |-> JStr("Navigation failed")]
  /\ InFlight("Login.onSubmit") = 0

\* C16: a Busy Login, Signup or Assess controller displays no error, and a
\* Busy Assess controller no result: the handler clears what an earlier
\* submission left as it enters Busy.
C16_BusyShowsNothingEarlier ==
  /\ login.loading => login.error = JNull
  /\ signup.loading => signup.error = JNull
  /\ assessPage.loading
       => (assessPage.error = JNull /\ assessPage.result = JNull)

C16_Witness ==
  /\ lastEvent.kind = "started"
  /\ lastEvent.trigger = "assess"
  /\ lastEvent.shown = [error |-> JNull, result |-> JSONvalue(GradeText)]
  /\ assessPage = [loading |-> TRUE, error |-> JNull, result |-> JNull]

\* An invocation of handler h of the mounted screen has just ended.
JustEnded(h) ==
  /\ lastEvent.kind = "finished"
  /\ lastEvent.handler = h
  /\ lastEvent.alive

\* C17: when login() rejects with an ApiError of status S, url U and body
\* B, the Login screen displays 'Login failed (S) at U. Response: B'.
C17_LoginShowsStatusUrlBody ==
  (JustEnded("Login.onSubmit") /\ IsApiError(lastEvent.rejection))
    => login.error
         = JStr("Login failed (" \o ToString(lastEvent.rejection.status)
                \o ") at " \o lastEvent.rejection.url
                \o ". Response: " \o lastEvent.rejection.body)

\* The awaited api function of the invocation that has just ended rejected
\* with a value that has no usable message.
RejectedWithoutMessage ==
  /\ lastEvent.kind = "finished"
  /\ lastEvent.alive
  /\ lastEvent.rejection # NoRejection
  /\ lastEvent.rejection # NavigateError
  /\ ~Truthy(OptionalMessage(lastEvent.rejection))

\* The fixed fallback message of the operation that rejected.
FallbackMessage ==
  CASE lastEvent.handler = "Login.onSubmit" -> "Failed to log in"
    [] lastEvent.handler = "Signup.onSubmit" -> "Failed to sign up"
    [] lastEvent.handler = "Dashboard.onBuildRag" -> "Failed to build RAG"
    [] lastEvent.handler = "Dashboard.refresh" -> "Failed to list files"
    [] lastEvent.handler = "Dashboard.onUploadSelected" ->
         IF lastEvent.steps[Len(lastEvent.steps)] = "listFiles:throw"
           THEN "Failed to list files" ELSE "Upload failed"
    [] OTHER -> "Failed to assess text"

\* The message the screen of the handler that has just ended displays.
DisplayedMessage ==
  CASE lastEvent.handler = "Login.onSubmit" -> login.error
    [] lastEvent.handler = "Signup.onSubmit" -> signup.error
    [] lastEvent.handler = "Assess.onSubmit" -> assessPage.error
    [] OTHER -> dashboard.message

\* C18: when the operation of Login, Signup, Dashboard upload, Dashboard
\* build or Dashboard list-refresh rejects with a value that has no usable
\* message (null, undefined, a plain object, a string, an Error with an
\* empty message), the screen displays the fallback message of the
\* operation and the handler does not throw.
C18_FallbackMessageShown ==
  (RejectedWithoutMessage /\ lastEvent.handler # "Assess.onSubmit")
    => /\ DisplayedMessage = JStr(FallbackMessage)
       /\ ~lastEvent.threw

\* C19: when register() or login() of the Signup sequence rejects with an
\* ApiError, the screen displays 'Signup failed (S) at U. Response: B' of
\* the step that failed: the register error of a run that never called
\* login, or the login error of a run whose register returned; the run
\* does not navigate.
C19_SignupShowsFailedStep ==
  (JustEnded("Signup.onSubmit") /\ IsApiError(lastEvent.rejection))
    => /\ signup.error
            = JStr("Signup failed (" \o ToString(lastEvent.rejection.status)
                   \o ") at " \o lastEvent.rejection.url
                   \o ". Response: " \o lastEvent.rejection.body)
       /\ \/ /\ lastEvent.steps = SignupRegisterFailed
             /\ lastEvent.rejection.url = REGISTER_PATH
          \/ /\ lastEvent.steps = SignupLoginFailed
             /\ lastEvent.rejection.url = LOGIN_PATH
       /\ route = "/signup"

\* The listFiles requests that are outstanding.
ListFilesRequests ==
  Cardinality({i \in 1..Len(pending) : pending[i].fn = "listFiles"})

\* The steps one run of Dashboard.onUploadSelected may have taken.
UploadRefreshing == <<"uploadFiles", "uploadFiles:ok", "listFiles">>
UploadFailed == <<"uploadFiles", "uploadFiles:throw">>
UploadRefreshed ==
  {<<"uploadFiles", "uploadFiles:ok", "listFiles", "listFiles:ok">>,
   <<"uploadFiles", "uploadFiles:ok", "listFiles", "listFiles:throw">>}

\* A step of a run of Dashboard.onUploadSelected: after uploadFiles
\* returned the message is 'Upload complete' and one more listFiles request
\* is outstanding; after uploadFiles threw the run has ended with no
\* listFiles request issued; the run ends when its one refresh has settled,
\* issuing none.
UploadThenOneRefresh ==
  (/\ lastEvent'.kind \in {"resumed", "finished"}
   /\ lastEvent'.handler = "Dashboard.onUploadSelected")
    => IF lastEvent'.kind = "resumed"
         THEN /\ lastEvent'.steps = UploadRefreshing
              /\ ListFilesRequests' = ListFilesRequests + 1
              /\ lastEvent'.alive
                   => dashboard'.message = JStr("Upload complete")
         ELSE \/ /\ lastEvent'.steps = UploadFailed
                 /\ ListFilesRequests' = ListFilesRequests
              \/ /\ lastEvent'.steps \in UploadRefreshed
                 /\ ListFilesRequests' = ListFilesRequests - 1

\* C20: when uploadFiles succeeds the Dashboard sets the message to
\* 'Upload complete' and then issues exactly one listFiles request, the
\* list-refresh; when uploadFiles fails it issues no listFiles request for
\* that attempt.
C20_UploadThenOneRefresh == [][UploadThenOneRefresh]_vars

C20_Witness ==
  /\ lastEvent.kind = "resumed"
  /\ lastEvent.handler = "Dashboard.onUploadSelected"
  /\ lastEvent.alive
  /\ lastEvent.steps = UploadRefreshing
  /\ dashboard.message = JStr("Upload complete")
  /\ dashboard.uploading
  /\ Outstanding("Dashboard.onUploadSelected", "listFiles") = 1

\* A step that ends a run of onUploadSelected of the mounted Dashboard
\* leaves the file input empty and the uploading flag false.
UploadAttemptReset ==
  (/\ lastEvent'.kind = "finished"
   /\ lastEvent'.handler = "Dashboard.onUploadSelected"
   /\ lastEvent'.alive)
    => (fileInput' = "" /\ ~dashboard'.uploading)

\* A change event with no file starts no invocation and leaves the state
\* of the Dashboard as it was.
EmptySelectionIgnored ==
  (lastEvent' = [kind |-> "ignored", trigger |-> "upload"])
    => (/\ pending' = pending
        /\ dashboard' = dashboard
        /\ submits' = submits
        /\ localStorage' = localStorage)

\* C21: after every upload attempt started with a non-empty selection,
\* whether uploadFiles returned or threw any value, the file input is reset
\* to empty and the uploading flag is false; a change event with a null or
\* empty file list issues no uploadFiles call and changes no state of the
\* Dashboard.
C21_UploadAlwaysResets ==
  [][UploadAttemptReset /\ EmptySelectionIgnored]_vars

C21_Witness ==
  /\ lastEvent.kind = "finished"
  /\ lastEvent.handler = "Dashboard.onUploadSelected"
  /\ lastEvent.alive
  /\ lastEvent.steps = UploadFailed
  /\ lastEvent.rejection = JNull
  /\ lastEvent.threw
  /\ fileInput = ""
  /\ dashboard.uploading = FALSE
  /\ dashboard.message = JNull

\* The invocation of the mounted Dashboard that has just ended did so with
\* the settlement of a listFiles request: the refresh of the mount effect
\* or the one that follows an upload.
RefreshEnded(ev, step) ==
  /\ ev.kind = "finished"
  /\ ev.alive
  /\ ev.handler \in {"Dashboard.refresh", "Dashboard.onUploadSelected"}
  /\ ev.steps[Len(ev.steps)] = step

\* A refresh that fails shows the message of the error (the fallback when
\* it has none) and keeps the list; one that succeeds holds the returned
\* list and shows no new message.
RefreshKeepsOrReplaces ==
  /\ RefreshEnded(lastEvent', "listFiles:throw")
       => (/\ dashboard'.files = dashboard.files
           /\ dashboard'.message
                = JStr(MessageOr(lastEvent'.rejection,
                                 "Failed to list files")))
  /\ RefreshEnded(lastEvent', "listFiles:ok")
       => (/\ dashboard'.files = lastEvent'.value
           /\ dashboard'.message = dashboard.message)

\* C22: a list-refresh that fails displays the message of its error and
\* leaves the held file list unchanged; a list-refresh that succeeds
\* replaces the held list with the returned one.
C22_RefreshKeepsOrReplaces == [][RefreshKeepsOrReplaces]_vars

C22_Witness ==
  /\ RefreshEnded(lastEvent, "listFiles:throw")
  /\ lastEvent.handler = "Dashboard.onUploadSelected"
  /\ lastEvent.rejection
       = ApiError("Request failed (404)", 404, "/api/files", "Not found")
  /\ dashboard.files = JSONvalue(FilesText)
  /\ dashboard.message = JStr("Request failed (404)")

\* The heading reads as a decimal number that is the number grade.
HeadingShows(heading, grade) ==
  \E whole \in 0..10, tenth \in 0..9 :
    /\ heading
         = "Grade: " \o ToString(whole) \o "." \o ToString(tenth) \o " / 10"
    /\ whole * 100 + tenth * 10 = grade.n * 100 + Hundredths(grade)

\* A submission of the mounted Assess screen leaves no result displayed as
\* its request is issued.
AssessSubmissionClears ==
  (lastEvent'.kind = "started" /\ lastEvent'.trigger = "assess")
    => (/\ assessPage'.result = JNull
        /\ AssessView(assessPage').heading = ""
        /\ AssessView(assessPage').explanation = "")

\* An assess() that returned leaves the returned grade and explanation
\* displayed.
AssessDisplaysReturned ==
  (JustEnded("Assess.onSubmit") /\ lastEvent.rejection = NoRejection)
    => (/\ assessPage.result = lastEvent.value
        /\ HeadingShows(AssessView(assessPage).heading,
                        OptionalGet(lastEvent.value, "grade"))
        /\ AssessView(assessPage).explanation
             = OptionalGet(lastEvent.value, "explanation").v)

\* The Assess screen never renders a result and an error together.
AssessResultOrError ==
  ~(Truthy(assessPage.result) /\ Truthy(assessPage.error))

\* C23: in the Assess controller every new submission clears the previous
\* result before the request is issued, a successful response displays
\* exactly the returned grade and explanation, and a result and an error
\* are never displayed together.
C23_AssessDisplaysExactResult ==
  /\ [][AssessSubmissionClears]_vars
  /\ [](AssessDisplaysReturned /\ AssessResultOrError)

\* A step in which an invocation resumes or ends after the screen that
\* started it was unmounted changes no location and nothing that a screen
\* or the Navbar displays, and its handler does not throw.
DiscardedHasNoEffect ==
  (lastEvent'.kind \in {"resumed", "finished"} /\ ~lastEvent'.alive)
    => (/\ route' = route
        /\ locationState' = locationState
        /\ navbar' = navbar
        /\ login' = login
        /\ signup' = signup
        /\ assessPage' = assessPage
        /\ dashboard' = dashboard
        /\ fileInput' = fileInput
        /\ (lastEvent'.kind = "finished") => ~lastEvent'.threw)

\* C24: when a request in flight completes after the controller that
\* issued it was discarded (the user navigated away, the screen was
\* unmounted), the completion has no effect: nothing throws, no navigation
\* happens and what the user sees does not change.
C24_DiscardedHasNoEffect == [][DiscardedHasNoEffect]_vars

\* The step removes an entry of the credential store.
RemovesEntry ==
  \/ \E k \in DOMAIN localStorage : k \notin DOMAIN localStorage'
  \/ \E i \in 1..Len(storageLog') : storageLog'[i][1] = "removeItem"

\* Only the step of a logout removes an entry, and the step in which a
\* request fails leaves the store as it was.
OnlyLogoutRemoves ==
  /\ RemovesEntry => lastEvent'.kind = "logout"
  /\ (lastEvent'.kind = "finished" /\ lastEvent'.rejection # NoRejection)
       => (localStorage' = localStorage /\ storageLog' = <<>>)

\* C25: the stored token and email are removed by an explicit logout only:
\* no workflow (login, signup, list-refresh, upload, build, assess) and no
\* failed request of any status, 401 included, removes the stored token.
C25_OnlyLogoutRemoves == [][OnlyLogoutRemoves]_vars

C25_Witness ==
  /\ lastEvent.kind = "finished"
  /\ lastEvent.handler = "Login.onSubmit"
  /\ IsApiError(lastEvent.rejection)
  /\ lastEvent.rejection.status = 401
  /\ localStorage = [auth_token |-> "T1", auth_email |-> "a@b.com"]

Stored(argument) == IF Truthy(argument) THEN argument ELSE JNull

\* The store as it was before the latest call.
StorageBefore == [items |-> lastEvent.before, log |-> <<>>]

\* C27: getToken() after setToken(t) returns t for a non-empty t and null
\* for null and for the empty string; setEmail and getEmail do the same
\* under a key of their own; setToken leaves the stored email as it was
\* and setEmail the stored token.
C27_SettersAndGetters ==
  /\ (lastEvent.kind = "set" /\ lastEvent.fn = "setToken")
       => /\ getToken(Storage) = Stored(lastEvent.argument)
          /\ getEmail(Storage) = getEmail(StorageBefore)
  /\ (lastEvent.kind = "set" /\ lastEvent.fn = "setEmail")
       => /\ getEmail(Storage) = Stored(lastEvent.argument)
          /\ getToken(Storage) = getToken(StorageBefore)

C27_Witness ==
  /\ lastEvent.kind = "set"
  /\ lastEvent.fn = "setToken"
  /\ lastEvent.argument = JStr("")
  /\ lastEvent.before = [auth_token |-> "T1", auth_email |-> "T1"]
  /\ getToken(Storage) = JNull
  /\ getEmail(Storage) = JStr("T1")

\* The headers the caller of the latest request passed in its options (the
\* empty mapping when it passed none).
CallerHeaders ==
  IF "headers" \in DOMAIN lastEvent.options
    THEN lastEvent.options["headers"] ELSE <<>>

\* C28: in the header mapping the gateway hands to fetch every header of
\* the caller stands with the caller's value, a Content-Type of the caller
\* in the place of the default application/json; the other options of the
\* caller (method, body) are handed to fetch as they are, and the headers
\* option is the computed mapping.
C28_CallerHeadersAndOptions ==
  (lastEvent.kind = "call" /\ lastEvent.fn = "api")
    => LET sent == lastEvent.fetch.init["headers"]
       IN /\ DOMAIN sent
               = {"Content-Type"} \cup DOMAIN CallerHeaders
                 \cup (IF Truthy(getToken(Storage))
                         THEN {"Authorization"} ELSE {})
          /\ \A k \in DOMAIN CallerHeaders :
               (k # "Authorization" \/ ~Truthy(getToken(Storage)))
                 => sent[k] = CallerHeaders[k]
          /\ "Content-Type" \notin DOMAIN CallerHeaders
               => sent["Content-Type"] = "application/json"
          /\ DOMAIN lastEvent.fetch.init
               = DOMAIN lastEvent.options \cup {"headers"}
          /\ \A k \in DOMAIN lastEvent.options \ {"headers"} :
               lastEvent.fetch.init[k] = lastEvent.options[k]

C28_Witness ==
  /\ lastEvent.kind = "call"
  /\ lastEvent.fn = "api"
  /\ getToken(Storage) = JStr("T0")
  /\ lastEvent.fetch.init
       = [method |-> "PUT", body |-> "{\"data\":\"test\"}",
          headers |-> ("Content-Type" :> "text/plain"
                       @@ "Authorization" :> "Bearer T0")]

\* The files_indexed of the response the buildRag() that has just returned
\* to the mounted Dashboard carried (undefined when it carried none).
FilesIndexed == OptionalGet(lastEvent.value, "files_indexed")

\* C29: when buildRag succeeds with a response whose files_indexed is the
\* number N the Dashboard displays 'RAG built: N files indexed', for N = 0
\* too; when the field is absent or null it displays 'RAG built: ? files
\* indexed'.
C29_BuildMessageCountsFiles ==
  (JustEnded("Dashboard.onBuildRag") /\ lastEvent.rejection = NoRejection)
    => /\ FilesIndexed.type = "number"
            => dashboard.message
                 = JStr("RAG built: " \o ToString(FilesIndexed.n)
                        \o " files indexed")
       /\ FilesIndexed.type \in {"undefined", "null"}
            => dashboard.message = JStr("RAG built: ? files indexed")
       /\ FilesIndexed.type \in {"number", "undefined", "null"}

C29_Witness ==
  /\ JustEnded("Dashboard.onBuildRag")
  /\ lastEvent.value = JObj([files_indexed |-> JNum(0)])
  /\ dashboard.message = JStr("RAG built: 0 files indexed")
  /\ ~dashboard.building

\* The Build RAG button is disabled exactly while a build is pending,
\* whatever the upload does, and the file input is never disabled.
DashboardTriggersIndependent ==
  /\ BuildDisabled <=> dashboard.building
  /\ ~UploadDisabled

\* An invocation of handler h of the mounted screen ends in this step.
Ends(h) ==
  /\ lastEvent'.kind = "finished"
  /\ lastEvent'.handler = h
  /\ lastEvent'.alive

\* On a Dashboard that stays mounted: a click on Build RAG is ignored only
\* while a build is pending; the uploading flag falls only as a run of
\* onUploadSelected ends and the building flag only as a run of onBuildRag
\* ends; the steps of one sub-workflow leave the flag of the other alone.
FlagsReleasedByOwnRequest ==
  (route = "/dashboard" /\ route' = "/dashboard")
    => (/\ (lastEvent' = [kind |-> "ignored", trigger |-> "build"])
              => dashboard.building
        /\ (dashboard.uploading /\ ~dashboard'.uploading)
              => Ends("Dashboard.onUploadSelected")
        /\ (dashboard.building /\ ~dashboard'.building)
              => Ends("Dashboard.onBuildRag")
        /\ (lastEvent'.kind \in {"resumed", "finished"}
            /\ lastEvent'.handler = "Dashboard.onUploadSelected")
              => dashboard'.building = dashboard.building
        /\ (lastEvent'.kind = "finished"
            /\ lastEvent'.handler = "Dashboard.onBuildRag")
              => dashboard'.uploading = dashboard.uploading)

\* C30: the upload and the build sub-workflows of the Dashboard do not
\* exclude each other: while an upload is pending the Build RAG button
\* stays enabled and while a build is pending the file input stays usable,
\* so that an uploadFiles and a buildRag request can be outstanding
\* together, and each of the flags uploading and building is released by
\* the settlement of its own sub-workflow's request only.
C30_UploadAndBuildIndependent ==
  /\ []DashboardTriggersIndependent
  /\ [][FlagsReleasedByOwnRequest]_vars

C30_Witness ==
  /\ route = "/dashboard"
  /\ Outstanding("Dashboard.onUploadSelected", "uploadFiles") = 1
  /\ Outstanding("Dashboard.onBuildRag", "buildRag") = 1
  /\ dashboard.uploading
  /\ dashboard.building
  /\ lastEvent.kind = "started"
  /\ lastEvent.trigger = "build"

\* The message an attempt that is still in flight has produced so far: a
\* run of onUploadSelected whose uploadFiles returned and that awaits its
\* refresh has set 'Upload complete'; a run that awaits uploadFiles or
\* buildRag has set none.
ProducedInFlight ==
  IF Outstanding("Dashboard.onUploadSelected", "listFiles") >= 1
    THEN {JNull, JStr("Upload complete")}
    ELSE {JNull}

\* C31: in the Dashboard, while uploading or building is true, the message
\* displayed is empty or was produced by the attempt that is in flight: a
\* Busy sub-workflow never shows a stale message.
C31_BusyShowsNoStaleMessage ==
  (dashboard.uploading \/ dashboard.building)
    => dashboard.message \in ProducedInFlight

\* C32: the message the Login screen shows for an ApiError depends on the
\* status only: it is 'Login failed (S). Please check your credentials and
\* try again.', so neither the request url nor the response body appears
\* in it.
C32_LoginMessageFromStatusOnly ==
  (JustEnded("Login.onSubmit") /\ IsApiError(lastEvent.rejection))
    => login.error
         = JStr("Login failed (" \o ToString(lastEvent.rejection.status)
                \o "). Please check your credentials and try again.")

\* The step that led to this state wrote the entry of the given key.
Wrote(key) ==
  \E i \in 1..Len(storageLog) :
    storageLog[i][1] = "setItem" /\ storageLog[i][2] = key

\* C33: whenever a token and an email are both stored they were written by
\* the same login call: a login writes the two entries together, the email
\* being its argument and the token the one its response supplied, so the
\* stored pair never mixes two calls.
C33_TokenAndEmailOfSameLogin ==
  (getToken(Storage) # JNull /\ getEmail(Storage) # JNull)
    => /\ Wrote(TOKEN_KEY) <=> Wrote(EMAIL_KEY)
       /\ Wrote(TOKEN_KEY)
            => /\ lastEvent.kind = "settle" /\ lastEvent.fn = "login"
               /\ getEmail(Storage) = lastEvent.email
               /\ getToken(Storage)
                    = OptionalGet(lastEvent.completion.value, "access_token")

\* C34: once logout() has run the store stays empty until a login is
\* submitted after it: a request that was in flight when logout ran (every
\* request that settles in the step right after the logout is one) does
\* not write the token or the email when it completes.
C34_InFlightLoginAfterLogout ==
  [][(lastEvent.kind = "logout" /\ Len(pending') < Len(pending))
       => localStorage' = <<>>]_vars

\* The Login or the Signup workflow has just navigated to /dashboard.
WorkflowNavigated ==
  /\ lastEvent.kind = "finished"
  /\ lastEvent.handler \in {"Login.onSubmit", "Signup.onSubmit"}
  /\ Requested(lastEvent) = "/dashboard"

\* C35: whenever the Login or the Signup workflow navigates to /dashboard a
\* token is stored at that moment, so the guard renders the Dashboard and
\* does not redirect to /login.
C35_WorkflowNavigatesWithToken ==
  WorkflowNavigated
    => (getToken(Storage) # JNull /\ route = "/dashboard")

\* An invocation of handler h of the mounted screen has just ended with a
\* list that its listFiles request returned.
Listed(ev, h) ==
  /\ ev.kind = "finished"
  /\ ev.handler = h
  /\ ev.alive
  /\ ev.steps[Len(ev.steps)] = "listFiles:ok"

\* The refresh of the mount effect is issued when the Dashboard mounts and
\* the refresh of an upload after that upload returned, so of two requests
\* of one mounted Dashboard the upload's is the later one. When the
\* upload's refresh has returned its list and the mount's then returns as
\* the last request outstanding, the list displayed stays the upload's.
OlderRefreshKeepsNewerList ==
  (/\ Listed(lastEvent, "Dashboard.onUploadSelected")
   /\ Listed(lastEvent', "Dashboard.refresh")
   /\ ListFilesRequests' = 0)
    => dashboard'.files = lastEvent.value

\* C36: once every outstanding listFiles request has settled, the list
\* displayed is the response of the most recently issued successful
\* request: the mount refresh completing after the post-upload refresh
\* never overwrites the newer list.
C36_NewestRefreshWins == [][OlderRefreshKeepsNewerList]_vars

\* The one run of onUploadSelected in flight, whose uploadFiles request has
\* just returned, ends in the next step: nothing happened in between.
UploadEndsAfterItsRefresh ==
  /\ lastEvent.kind = "resumed"
  /\ lastEvent.handler = "Dashboard.onUploadSelected"
  /\ lastEvent.alive
  /\ lastEvent.steps = UploadRefreshing
  /\ InFlight("Dashboard.onUploadSelected") = 1
  /\ lastEvent'.kind = "finished"
  /\ lastEvent'.handler = "Dashboard.onUploadSelected"
  /\ lastEvent'.alive
  /\ lastEvent'.steps \in UploadRefreshed

\* C37: after an upload whose uploadFiles request succeeded, with nothing
\* else happening in between, the message displayed when the upload
\* sub-workflow is Idle again is 'Upload complete': a failure of the refresh
\* that follows neither replaces the confirmation nor shows 'Upload failed'.
C37_ConfirmationSurvivesRefresh ==
  [][UploadEndsAfterItsRefresh
       => (/\ ~dashboard'.uploading
           /\ dashboard'.message = JStr("Upload complete"))]_vars

\* C38: uploadFiles throws only when the response has a non-success status:
\* a run of onUploadSelected that its uploadFiles call ended did so with an
\* ApiError, and after a successful response, whatever its body, the
\* Dashboard goes on to 'Upload complete'.
C38_UploadThrowsOnlyOnStatus ==
  (JustEnded("Dashboard.onUploadSelected") /\ lastEvent.steps = UploadFailed)
    => (IsApiError(lastEvent.rejection)
        /\ dashboard.message # JStr("Upload complete"))

====
